---- MODULE Spec2Model ----
(***************************************************************************)
(* POSE - Parallel Orbital Simulation Environment.                         *)
(*                                                                         *)
(* A model of the propagator loop (sim_cpu.rs: simulate), the perturbation *)
(* engine (sim_cpu.rs: cowell_perturb), the ephemeris list (bodies.rs:     *)
(* solar_system_objs, update_solar_system_objs), the loader (innout.rs:    *)
(* parse_inpt) and the Kepler solver (bodies.rs: eccentric_anomaly).       *)
(*                                                                         *)
(* Numbers.  The program computes in f32/f64.  The model computes in fixed *)
(* point: a finite float x is the one-element tuple <<r>> with r the       *)
(* integer nearest to x * FRAC towards zero, NaN is <<>> and an infinity   *)
(* of sign s is <<s, 0>>.  Lengths, masses and the AU are in model units   *)
(* (a miniature system that fits 32-bit integers); only their order is     *)
(* kept (Sun heavier than Earth heavier than Moon, Sun farther than Moon). *)
(***************************************************************************)
EXTENDS Integers, Sequences, FiniteSets, TLC

VARIABLES
    pc,           \* position of main / simulate: "start", "solar", "perturb", "write", "advance"; "kepler", "kepler_done"; "coords"
    sim_bodies,   \* simulate's sim_bodies: Vec<SimobjT>
    env,          \* simulate's env: bodies::Environment
    sim_params,   \* SimulationParameters: sim_time_step, sim_solar_step
    output,       \* the rows handed to output_controller, in order
    body_idx,     \* position of the for loop over sim_bodies (1-based)
    tick,         \* number of completed iterations of simulate's loop
    refresh_ticks, \* the ticks that took the refresh branch
    init_bodies,  \* sim_bodies as returned by parse_inpt
    zero_acc,     \* per body: every summed acceleration applied so far was zero
    kep,          \* eccentric_anomaly's locals: e, m, ecc, and the iterations done
    cc,           \* a CartesianCoords under conversion, the AU values it was made with, the calls made
    cancel        \* a cancellation signal has been raised

vars == <<pc, sim_bodies, env, sim_params, output, body_idx, tick,
          refresh_ticks, init_bodies, zero_acc, kep, cc, cancel>>

---------------------------------------------------------------------------
(* Bounds of the model.                                                    *)

\* Fixed-point resolution: floats are counted in units of 1/FRAC.
FRAC == 100
\* simulate's loop never ends; the model stops it after MaxTicks iterations.
MaxTicks == 4
\* Largest number of debris / spacecraft entries in the input file.
MaxDebris == 1
MaxSpacecraft == 1
\* sim_time_step is drawn from 1..MaxTimeStep, sim_solar_step from 0..MaxSolarStep.
MaxTimeStep == 2
MaxSolarStep == 3
\* The epoch day is drawn from 0..MaxDay.
MaxDay == 1
\* Seconds of simulation time per ephemeris day, in model units.
DaySeconds == 2

---------------------------------------------------------------------------
(* f64 / f32 arithmetic in fixed point, with NaN and the infinities.       *)

NaN == <<>>
Inf(s) == <<s, 0>>
F(r) == <<r>>
\* An integer literal n as a float (n as f64).
ToF(n) == F(n * FRAC)

IsNaN(a) == Len(a) = 0
IsInf(a) == Len(a) = 2
IsFin(a) == Len(a) = 1

Abs(i) == IF i < 0 THEN -i ELSE i
Sgn(i) == IF i < 0 THEN -1 ELSE 1
\* Integer division rounding towards zero, as float rounding is symmetric.
TruncDiv(a, b) == Sgn(a) * Sgn(b) * (Abs(a) \div Abs(b))

fneg(a) ==
    IF IsNaN(a) THEN NaN
    ELSE IF IsInf(a) THEN Inf(-a[1])
    ELSE F(-a[1])

fadd(a, b) ==
    IF IsNaN(a) \/ IsNaN(b) THEN NaN
    ELSE IF IsInf(a) THEN (IF IsInf(b) /\ b[1] # a[1] THEN NaN ELSE a)
    ELSE IF IsInf(b) THEN b
    ELSE F(a[1] + b[1])

fsub(a, b) == fadd(a, fneg(b))

fmul(a, b) ==
    IF IsNaN(a) \/ IsNaN(b) THEN NaN
    ELSE IF IsInf(a) \/ IsInf(b)
         THEN (IF (IsFin(a) /\ a[1] = 0) \/ (IsFin(b) /\ b[1] = 0)
               THEN NaN
               ELSE Inf(Sgn(a[1]) * Sgn(b[1])))
    ELSE F(TruncDiv(a[1] * b[1], FRAC))

fdiv(a, b) ==
    IF IsNaN(a) \/ IsNaN(b) THEN NaN
    ELSE IF IsInf(a) THEN (IF IsInf(b) THEN NaN ELSE Inf(a[1] * Sgn(b[1])))
    ELSE IF IsInf(b) THEN F(0)
    ELSE IF b[1] = 0 THEN (IF a[1] = 0 THEN NaN ELSE Inf(Sgn(a[1])))
    ELSE F(TruncDiv(a[1] * FRAC, b[1]))

RECURSIVE SqrtSearch(_, _, _)
\* The largest r in lo..hi with r * r <= n (lo * lo <= n is given).
SqrtSearch(n, lo, hi) ==
    IF lo >= hi THEN lo
    ELSE LET mid == (lo + hi + 1) \div 2
         IN  IF mid * mid <= n THEN SqrtSearch(n, mid, hi)
             ELSE SqrtSearch(n, lo, mid - 1)

ISqrt(n) == SqrtSearch(n, 0, IF n < 46340 THEN n ELSE 46340)

fsqrt(a) ==
    IF IsNaN(a) THEN NaN
    ELSE IF IsInf(a) THEN (IF a[1] > 0 THEN a ELSE NaN)
    ELSE IF a[1] < 0 THEN NaN
    ELSE F(ISqrt(a[1] * FRAC))

---------------------------------------------------------------------------
(* 3-vectors of floats (ndarray::Array1<f64> of length 3, types.rs Array3d) *)

Vec3(x, y, z) == <<ToF(x), ToF(y), ToF(z)>>
ZeroVec == <<F(0), F(0), F(0)>>

vadd(u, v) == [i \in 1..3 |-> fadd(u[i], v[i])]
vsub(u, v) == [i \in 1..3 |-> fsub(u[i], v[i])]
vscale(u, s) == [i \in 1..3 |-> fmul(u[i], s)]

RECURSIVE DotFrom(_, _, _)
\* The first k products of u and v added up.
DotFrom(u, v, k) ==
    IF k = 1 THEN fmul(u[1], v[1])
    ELSE fadd(DotFrom(u, v, k - 1), fmul(u[k], v[k]))

dot(u, v) == DotFrom(u, v, 3)

l2_norm(x) == fsqrt(dot(x, x))

\* normalize(x, Some(norm)): x.mapv(|e| e / norm)
normalize(x, norm) == [i \in 1..3 |-> fdiv(x[i], norm)]

---------------------------------------------------------------------------
(* bodies.rs: solar objects and their ephemeris.                           *)

\* SolarAttr.mass of make_sun / make_earth / make_moon, in model units.
get_mass_kg(solartype) ==
    CASE solartype = "Sun" -> ToF(400)
      [] solartype = "Earth" -> ToF(50)
      [] solartype = "Moon" -> ToF(2)

\* Gravitational constant, in model units.
G == ToF(1)

\* The literal to_meters multiplies by and to_au divides by, in model units.
AU_LITERAL == ToF(30)

\* CartesianCoords{xh, yh, zh, is_meters, heliocentric}
CartesianCoords(x, y, z, is_meters, heliocentric) ==
    [xh |-> x, yh |-> y, zh |-> z, is_meters |-> is_meters, heliocentric |-> heliocentric]

\* A faulty variant: the values are scaled whatever the flag says.
to_meters_unguarded(c) ==
    LET m == vscale(<<c.xh, c.yh, c.zh>>, AU_LITERAL)
    IN  [c EXCEPT !.is_meters = TRUE, !.xh = m[1], !.zh = m[3], !.yh = m[2]]

\* CartesianCoords::to_meters
to_meters(c) ==
    IF ~c.is_meters
    THEN LET m == vscale(<<c.xh, c.yh, c.zh>>, AU_LITERAL)
         IN  [c EXCEPT !.is_meters = TRUE, !.xh = m[1], !.zh = m[3], !.yh = m[2]]
    ELSE c

\* CartesianCoords::to_au
to_au(c) ==
    IF c.is_meters
    THEN LET a == normalize(<<c.xh, c.yh, c.zh>>, AU_LITERAL)
         IN  [c EXCEPT !.is_meters = FALSE, !.xh = a[1], !.zh = a[3], !.yh = a[2]]
    ELSE c

\* A faulty variant: the Sun is given a position one AU off the origin.
Sun_coords_off_origin(day) ==
    CartesianCoords(ToF(1), F(0), F(0), FALSE, TRUE)

\* impl KeplerModel for Sun: the origin of the heliocentric frame, for every day.
Sun_ecliptic_cartesian_coords(day) ==
    CartesianCoords(F(0), F(0), F(0), FALSE, TRUE)

\* impl KeplerModel for Earth: heliocentric AU, z = 0.  The series in Julian
\* centuries is kept as a circular orbit of radius 1 AU sampled at four days.
Earth_ecliptic_cartesian_coords(day) ==
    LET q == day % 4
        x == CASE q = 0 -> 0 [] q = 1 -> -1 [] q = 2 -> 0 [] q = 3 -> 1
        y == CASE q = 0 -> 1 [] q = 1 -> 0 [] q = 2 -> -1 [] q = 3 -> 0
    IN  CartesianCoords(ToF(x), ToF(y), F(0), FALSE, TRUE)

\* impl KeplerModel for PlanetPS (the Moon): geocentric AU (lunar_pertub's
\* result), kept as an inclined orbit of radius 1/10 AU sampled at two days.
PlanetPS_ecliptic_cartesian_coords(day) ==
    LET s == IF day % 2 = 0 THEN 1 ELSE -1
    IN  CartesianCoords(F(s * (FRAC \div 10)), F(0), F(s * (FRAC \div 50)), FALSE, FALSE)

\* Trait dispatch of obj.ecliptic_cartesian_coords(day) on the body's type.
ecliptic_cartesian_coords(solartype, day) ==
    CASE solartype = "Sun" -> Sun_ecliptic_cartesian_coords(day)
      [] solartype = "Earth" -> Earth_ecliptic_cartesian_coords(day)
      [] solartype = "Moon" -> PlanetPS_ecliptic_cartesian_coords(day)

make_sun ==
    [solartype |-> "Sun", coords |-> CartesianCoords(F(0), F(0), F(0), FALSE, TRUE)]

make_earth(day) ==
    [solartype |-> "Earth", coords |-> Earth_ecliptic_cartesian_coords(day)]

make_moon(day) ==
    [solartype |-> "Moon", coords |-> PlanetPS_ecliptic_cartesian_coords(day)]

\* A faulty variant: the Earth is pushed before the Sun.
solar_system_objs_earth_first(day) == <<make_earth(day), make_sun, make_moon(day)>>

\* 0 - Sun, 1 - Earth, 2 - Moon (TLA+ sequences count from 1).
solar_system_objs(day) == <<make_sun, make_earth(day), make_moon(day)>>

update_solar_system_objs(ss_objs, day) ==
    [i \in DOMAIN ss_objs |->
        [ss_objs[i] EXCEPT !.coords = ecliptic_cartesian_coords(ss_objs[i].solartype, day)]]

---------------------------------------------------------------------------
(* bodies::Environment.  Its source is not among the files; it is modelled *)
(* from the specification's section 4.E.                                   *)

\* Every body's coords converted from AU to meters.
coords_in_meters(ss_objs) ==
    [i \in DOMAIN ss_objs |-> [ss_objs[i] EXCEPT !.coords = to_meters(ss_objs[i].coords)]]

\* Environment::new(epoch_day)
Environment_new(day) ==
    [start_day |-> day,
     day |-> day,
     sim_time_s |-> 0,
     last_day_update_s |-> 0,
     solar_objs |-> coords_in_meters(solar_system_objs(day))]

\* The current day: the epoch day plus the simulated time.
current_day(e) == e.start_day + (e.sim_time_s \div DaySeconds)

\* Environment::update (the specification's refresh)
Environment_update(e) ==
    [e EXCEPT !.day = current_day(e),
              !.solar_objs = coords_in_meters(update_solar_system_objs(e.solar_objs, current_day(e))),
              !.last_day_update_s = e.sim_time_s]

get_solar_objects(e) == e.solar_objs

coords_vec(c) == <<c.xh, c.yh, c.zh>>

\* The Earth's entry of the list.
earth_of(objs) == objs[CHOOSE i \in DOMAIN objs : objs[i].solartype = "Earth"]

\* The position of the body at planet_idx in the centric (geocentric) frame:
\* heliocentric coords are taken relative to the Earth's.
centric_position(e, planet_idx) ==
    IF get_solar_objects(e)[planet_idx].coords.heliocentric
    THEN vsub(coords_vec(get_solar_objects(e)[planet_idx].coords),
              coords_vec(earth_of(get_solar_objects(e)).coords))
    ELSE coords_vec(get_solar_objects(e)[planet_idx].coords)

\* Environment::distance_to: the vector from the small body to the body at planet_idx.
distance_to(e, sim_obj, planet_idx) ==
    vsub(centric_position(e, planet_idx), sim_obj.coords)

---------------------------------------------------------------------------
(* Small bodies and the loader (bodies.rs: Spacecraft, Debris; innout.rs). *)

\* Option<T>
None == <<>>
Some(x) == <<x>>

\* All sequences over S of length at most n.
SeqsUpTo(S, n) == UNION {[1..k -> S] : k \in 0..n}

\* The x_dis.. z_vel fields of the entries an input file may hold: a body near
\* the Earth, a body at the Earth's centre, and a distant body.
RawBodies ==
    {[dis |-> Vec3(5, 0, 0), vel |-> Vec3(0, 1, 0)],
     [dis |-> Vec3(0, 0, 0), vel |-> Vec3(0, 0, 0)],
     [dis |-> Vec3(300, 0, 0), vel |-> Vec3(1, -1, 0)]}

\* The debris entries are drawn from the first kind only.
RawDebris == {[dis |-> Vec3(5, 0, 0), vel |-> Vec3(0, 1, 0)]}

\* serde's Deserialize of a Spacecraft / Debris: id is #[serde(skip_deserializing)],
\* so it takes u32's default.
Deserialize(type, raw) ==
    [type_of |-> type, id |-> 0, coords |-> raw.dis, velocity |-> raw.vel]

\* parse_inpt: the debris, then the spacecraft, each pushed as a clone.
parse_inpt(ser_objs) == ser_objs.Debris \o ser_objs.Spacecraft

\* Simobj accessors (the trait's methods of the version sim_cpu.rs calls).
get_id(sim_obj) == sim_obj.id
set_velocity(sim_obj, v) == [sim_obj EXCEPT !.velocity = v]
set_coords(sim_obj, x) == [sim_obj EXCEPT !.coords = x]

---------------------------------------------------------------------------
(* sim_cpu.rs: the perturbation engine (mod cowell_perturb).               *)

\* newton_gravitational_field after its lets: unit_vector * (-G * (planet_mass_kg / l2_dist.powi(2)))
gravitational_field(distance_vector, l2_dist, planet_mass_kg) ==
    vscale(normalize(distance_vector, l2_dist),
           fmul(fneg(G), fdiv(planet_mass_kg, fmul(l2_dist, l2_dist))))

newton_gravitational_field(distance_vector, planet_idx, e) ==
    gravitational_field(distance_vector,
                        l2_norm(distance_vector),
                        get_mass_kg(get_solar_objects(e)[planet_idx].solartype))

\* "Special case to handle differential forces on sim object": for the Sun at an
\* index other than the source's 0 (1 here), the field at the centric body, the
\* body at index 0, is subtracted.
differential(grav_accel, planet_idx, e) ==
    LET objs == get_solar_objects(e)
    IN  IF objs[planet_idx].solartype = "Sun" /\ planet_idx # 1
        THEN vsub(grav_accel,
                  newton_gravitational_field(
                      vsub(coords_vec(objs[planet_idx].coords), coords_vec(objs[1].coords)),
                      planet_idx, e))
        ELSE grav_accel

\* The body of calc_planet_perturb's loop: the acceleration pushed for planet_idx.
grav_accel_of(sim_obj, e, planet_idx) ==
    differential(newton_gravitational_field(distance_to(e, sim_obj, planet_idx), planet_idx, e),
                 planet_idx, e)

RECURSIVE SumFrom(_, _)
\* perturbation_vec.iter().map(..).sum(): the vectors of vs added up from zero, in order.
SumFrom(vs, k) ==
    IF k = 0 THEN ZeroVec ELSE vadd(SumFrom(vs, k - 1), vs[k])

PerturbationDelta(id, sim_time, acceleration) ==
    [id |-> id, sim_time |-> sim_time, acceleration |-> acceleration]

\* calc_planet_perturb after its loop: (total perturbation delta, individual deltas or None)
final_perturbation(sim_obj, e, do_return_perturb, perturbation_vec) ==
    LET sum_perturb == PerturbationDelta(get_id(sim_obj), e.sim_time_s,
                                         SumFrom(perturbation_vec, Len(perturbation_vec)))
        final_perturb_vec ==
            [k \in DOMAIN perturbation_vec |->
                [solar_obj |-> get_solar_objects(e)[k].solartype,
                 delta |-> PerturbationDelta(get_id(sim_obj), e.sim_time_s, perturbation_vec[k])]]
    IN  IF ~do_return_perturb
        THEN <<sum_perturb, None>>
        ELSE <<sum_perturb, Some(final_perturb_vec)>>

calc_planet_perturb(sim_obj, e, do_return_perturb) ==
    final_perturbation(sim_obj, e, do_return_perturb,
                       [k \in DOMAIN get_solar_objects(e) |-> grav_accel_of(sim_obj, e, k)])

\* A faulty variant: the position is advanced by the velocity, not by velocity * step_time_s.
integrate_without_step(sim_obj, step_time_s, do_return_perturb, gravity_perturbations) ==
    LET combined_acceleration == vadd(ZeroVec, gravity_perturbations[1].acceleration)
        velocity_delta == vscale(combined_acceleration, step_time_s)
        updated_sim_obj_velocity == vadd(sim_obj.velocity, velocity_delta)
        updated_sim_obj_coords == vadd(sim_obj.coords, updated_sim_obj_velocity)
    IN  [obj |-> set_coords(set_velocity(sim_obj, updated_sim_obj_velocity),
                            updated_sim_obj_coords),
         combined_acceleration |-> combined_acceleration,
         ret |-> IF ~do_return_perturb
                 THEN None
                 ELSE Some(gravity_perturbations[2][1])]

\* A faulty variant: the position is advanced by the velocity of before the step.
integrate_with_old_velocity(sim_obj, step_time_s, do_return_perturb, gravity_perturbations) ==
    LET combined_acceleration == vadd(ZeroVec, gravity_perturbations[1].acceleration)
        velocity_delta == vscale(combined_acceleration, step_time_s)
        updated_sim_obj_velocity == vadd(sim_obj.velocity, velocity_delta)
        position_delta == vscale(sim_obj.velocity, step_time_s)
        updated_sim_obj_coords == vadd(sim_obj.coords, position_delta)
    IN  [obj |-> set_coords(set_velocity(sim_obj, updated_sim_obj_velocity),
                            updated_sim_obj_coords),
         combined_acceleration |-> combined_acceleration,
         ret |-> IF ~do_return_perturb
                 THEN None
                 ELSE Some(gravity_perturbations[2][1])]

\* A faulty variant: the body is advanced only when the perturbations are asked for.
integrate_only_when_recording(sim_obj, step_time_s, do_return_perturb, gravity_perturbations) ==
    LET combined_acceleration == vadd(ZeroVec, gravity_perturbations[1].acceleration)
        velocity_delta == vscale(combined_acceleration, step_time_s)
        updated_sim_obj_velocity == vadd(sim_obj.velocity, velocity_delta)
        position_delta == vscale(updated_sim_obj_velocity, step_time_s)
        updated_sim_obj_coords == vadd(sim_obj.coords, position_delta)
    IN  [obj |-> IF ~do_return_perturb
                 THEN sim_obj
                 ELSE set_coords(set_velocity(sim_obj, updated_sim_obj_velocity),
                                 updated_sim_obj_coords),
         combined_acceleration |-> combined_acceleration,
         ret |-> IF ~do_return_perturb
                 THEN None
                 ELSE Some(gravity_perturbations[2][1])]

\* apply_perturbations after calc_planet_perturb: the velocity is advanced by the
\* summed acceleration, then the position by the advanced velocity.  Returns the
\* updated sim_obj, the returned Option<Vec<Perturbation>>, and (for the record)
\* the local combined_acceleration.
integrate(sim_obj, step_time_s, do_return_perturb, gravity_perturbations) ==
    LET combined_acceleration == vadd(ZeroVec, gravity_perturbations[1].acceleration)
        velocity_delta == vscale(combined_acceleration, step_time_s)
        updated_sim_obj_velocity == vadd(sim_obj.velocity, velocity_delta)
        position_delta == vscale(updated_sim_obj_velocity, step_time_s)
        updated_sim_obj_coords == vadd(sim_obj.coords, position_delta)
    IN  [obj |-> set_coords(set_velocity(sim_obj, updated_sim_obj_velocity),
                            updated_sim_obj_coords),
         combined_acceleration |-> combined_acceleration,
         ret |-> IF ~do_return_perturb
                 THEN None
                 ELSE Some(gravity_perturbations[2][1])]

apply_perturbations(sim_obj, e, step_time_s, do_return_perturb) ==
    integrate(sim_obj, step_time_s, do_return_perturb,
              calc_planet_perturb(sim_obj, e, do_return_perturb))

---------------------------------------------------------------------------
(* sim_cpu.rs: the rows written to the output controller.  Each row also   *)
(* records the tick and the position in sim_bodies it was written for.     *)

Row(kind, t, idx, rec) == [row |-> kind, tick |-> t, idx |-> idx, rec |-> rec]

\* Perturbation::into_output_form; petrub_type is format!("{}_{}", "solar_obj", solar_obj)
into_output_form(perturbation) ==
    [id |-> perturbation.delta.id,
     sim_time |-> perturbation.delta.sim_time,
     petrub_type |-> <<"solar_obj", perturbation.solar_obj>>,
     acceleration |-> perturbation.delta.acceleration]

\* Simobj::to_output_form(sim_time)
to_output_form(sim_obj, sim_time) ==
    [id |-> sim_obj.id, kind |-> sim_obj.type_of, sim_time |-> sim_time,
     coords |-> sim_obj.coords, velocity |-> sim_obj.velocity]

\* The solar object's to_output_form(sim_time)
solar_to_output_form(solar_object, sim_time) ==
    [sim_time |-> sim_time, kind |-> solar_object.solartype,
     coords |-> coords_vec(solar_object.coords)]

\* A faulty variant: only the first perturbation of the body is written.
write_out_first_perturbation(perturbations, out, t, idx) ==
    out \o <<Row("perturbation", t, idx, into_output_form(perturbations[1]))>>

write_out_all_perturbations(perturbations, out, t, idx) ==
    out \o [k \in DOMAIN perturbations |->
                Row("perturbation", t, idx, into_output_form(perturbations[k]))]

\* A faulty variant: the state rows are put before the rows already written.
write_out_all_object_parameters_at_front(e, sim_objects, out, t) ==
    [i \in DOMAIN sim_objects |->
        Row("object", t, i, to_output_form(sim_objects[i], e.sim_time_s))] \o out

write_out_all_object_parameters(e, sim_objects, out, t) ==
    out \o [i \in DOMAIN sim_objects |->
                Row("object", t, i, to_output_form(sim_objects[i], e.sim_time_s))]

write_out_all_solar_objects(e, out, t) ==
    out \o [i \in DOMAIN get_solar_objects(e) |->
                Row("solar", t, 0, solar_to_output_form(get_solar_objects(e)[i], e.sim_time_s))]

---------------------------------------------------------------------------
(* main.rs: main, and sim_cpu.rs: simulate, one action per step.           *)

\* A faulty variant: the refresh is also taken when exactly sim_solar_step has elapsed.
refresh_due_at_equality(e, p) == e.sim_time_s >= e.last_day_update_s + p.sim_solar_step

\* simulate's test "Update solar objs"
refresh_due(e, p) == e.sim_time_s > e.last_day_update_s + p.sim_solar_step

Idle == [e |-> 0, m |-> 0, ecc |-> 0, iters |-> 0]

Init ==
    /\ pc = "start"
    /\ sim_bodies = <<>>
    /\ init_bodies = <<>>
    /\ env = Environment_new(0)
    /\ sim_params = [sim_time_step |-> 1, sim_solar_step |-> 0]
    /\ output = <<>>
    /\ body_idx = 1
    /\ tick = 0
    /\ refresh_ticks = {}
    /\ zero_acc = <<>>
    /\ kep = Idle
    /\ cc = [coords |-> make_sun.coords, au |-> ZeroVec, calls |-> 0, changes |-> 0]
    /\ cancel = FALSE

\* main: parse_inpt, Environment::new, then simulate is entered.
Main ==
    /\ pc = "start"
    /\ \E debris \in SeqsUpTo(RawDebris, MaxDebris),
          spacecraft \in SeqsUpTo(RawBodies, MaxSpacecraft),
          day \in 0..MaxDay,
          time_step \in 1..MaxTimeStep,
          solar_step \in 0..MaxSolarStep :
          LET ser_objs ==
                  [Debris |-> [i \in DOMAIN debris |-> Deserialize("Debris", debris[i])],
                   Spacecraft |-> [i \in DOMAIN spacecraft |->
                                       Deserialize("Spacecraft", spacecraft[i])]]
              bodies == parse_inpt(ser_objs)
          IN  /\ sim_bodies' = bodies
              /\ init_bodies' = bodies
              /\ zero_acc' = [i \in DOMAIN bodies |-> TRUE]
              /\ env' = Environment_new(day)
              /\ sim_params' = [sim_time_step |-> time_step, sim_solar_step |-> solar_step]
    /\ pc' = "solar"
    /\ UNCHANGED <<output, body_idx, tick, refresh_ticks, kep, cc, cancel>>

\* The head of the loop: write the solar objects and update the environment when due.
SolarStep ==
    /\ pc = "solar"
    /\ IF refresh_due(env, sim_params)
       THEN /\ output' = write_out_all_solar_objects(env, output, tick)
            /\ env' = Environment_update(env)
            /\ refresh_ticks' = refresh_ticks \cup {tick}
       ELSE UNCHANGED <<output, env, refresh_ticks>>
    /\ body_idx' = 1
    /\ pc' = IF Len(sim_bodies) = 0 THEN "write" ELSE "perturb"
    /\ UNCHANGED <<sim_bodies, sim_params, tick, init_bodies, zero_acc, kep, cc, cancel>>

\* The body of "for sim_obj in sim_bodies.iter_mut()" once apply_perturbations returned r.
Perturbed(r) ==
    /\ sim_bodies' = [sim_bodies EXCEPT ![body_idx] = r.obj]
    /\ output' = IF r.ret # None
                 THEN write_out_all_perturbations(r.ret[1], output, tick, body_idx)
                 ELSE output
    /\ zero_acc' = [zero_acc EXCEPT ![body_idx] = @ /\ r.combined_acceleration = ZeroVec]

\* One iteration of "for sim_obj in sim_bodies.iter_mut()".
PerturbStep ==
    /\ pc = "perturb"
    /\ Perturbed(apply_perturbations(sim_bodies[body_idx], env,
                                     ToF(sim_params.sim_time_step), TRUE))
    /\ body_idx' = body_idx + 1
    /\ pc' = IF body_idx = Len(sim_bodies) THEN "write" ELSE "perturb"
    /\ UNCHANGED <<env, sim_params, tick, refresh_ticks, init_bodies, kep, cc, cancel>>

WriteStep ==
    /\ pc = "write"
    /\ output' = write_out_all_object_parameters(env, sim_bodies, output, tick)
    /\ pc' = "advance"
    /\ UNCHANGED <<sim_bodies, env, sim_params, body_idx, tick, refresh_ticks,
                   init_bodies, zero_acc, kep, cc, cancel>>

\* A faulty variant: the time moves forward by the solar refresh interval.
advance_time_by_solar_step(e, p) == [e EXCEPT !.sim_time_s = @ + p.sim_solar_step]

\* env.sim_time_s += sim_params.sim_time_step as f64
advance_time(e, p) == [e EXCEPT !.sim_time_s = @ + p.sim_time_step]

\* "Move forward simulation by step"; the loop has no exit, the model stops at MaxTicks.
AdvanceStep ==
    /\ pc = "advance"
    /\ tick < MaxTicks
    /\ env' = advance_time(env, sim_params)
    /\ tick' = tick + 1
    /\ pc' = "solar"
    /\ UNCHANGED <<sim_bodies, sim_params, output, body_idx, refresh_ticks,
                   init_bodies, zero_acc, kep, cc, cancel>>

Next == Main \/ SolarStep \/ PerturbStep \/ WriteStep \/ AdvanceStep

Spec == Init /\ [][Next]_vars

---------------------------------------------------------------------------
(* A run under a caller that may ask for the run to stop.  The request can *)
(* arrive at any point of a tick; simulate takes no such input, so the     *)
(* request changes nothing but the flag that records it.                   *)

\* The bounded end time of a run, in simulated seconds.
end_seconds == 1

Cancel ==
    /\ pc \in {"solar", "perturb", "write", "advance"}
    /\ ~cancel
    /\ cancel' = TRUE
    /\ UNCHANGED <<pc, sim_bodies, env, sim_params, output, body_idx, tick,
                   refresh_ticks, init_bodies, zero_acc, kep, cc>>

CancelNext == Main \/ SolarStep \/ PerturbStep \/ WriteStep \/ AdvanceStep \/ Cancel

CancelSpec == Init /\ [][CancelNext]_vars

---------------------------------------------------------------------------
(* bodies.rs: kepler_utilities::eccentric_anomaly, called for the Moon by  *)
(* PlanetPS::ecliptic_cartesian_coords with e = e0 + day * ec and          *)
(* m_u = m0 + day * mc.                                                    *)
(*                                                                         *)
(* Numbers.  The solver computes in f32.  An angle is counted in units of  *)
(* 1/DegUnit degree and rounded, as an f32 is, to 24 significant bits      *)
(* (round to nearest, ties to even): below 2^24 units the model is coarser *)
(* than f32, above it has exactly the spacing of f32 (1/64 degree between  *)
(* 131072 and 262144 degrees).  An eccentricity is counted in units of     *)
(* 1/EccScale, a sine or cosine in units of 1/TrigScale.                   *)

\* The iterations of the solver's loop are counted up to MaxKeplerIter.
MaxKeplerIter == 66

DegUnit == 1024
EccScale == 10000
TrigScale == 16384
\* The f32 significand: 2^24.
Significand == 16777216

\* Integer division rounding to nearest, as f32 arithmetic rounds.
RoundDiv(a, b) == Sgn(a) * Sgn(b) * ((2 * Abs(a) + Abs(b)) \div (2 * Abs(b)))

RECURSIVE UlpFrom(_, _)
UlpFrom(a, u) == IF a \div u < Significand THEN u ELSE UlpFrom(a, 2 * u)

\* The spacing of the f32 values around x.
Ulp(x) == UlpFrom(Abs(x), 1)

RoundTo(a, u, lo) ==
    IF 2 * (a - lo) > u \/ (2 * (a - lo) = u /\ (lo \div u) % 2 = 1)
    THEN lo + u
    ELSE lo

\* x rounded to the nearest f32 value.
f32(x) == Sgn(x) * RoundTo(Abs(x), Ulp(x), (Abs(x) \div Ulp(x)) * Ulp(x))

\* TrigScale * sin(d degrees) for d = 0..90, the entry of d at position d + 1.
SinTable ==
    <<0, 286, 572, 857, 1143, 1428, 1713, 1997, 2280, 2563,
      2845, 3126, 3406, 3686, 3964, 4240, 4516, 4790, 5063, 5334,
      5604, 5872, 6138, 6402, 6664, 6924, 7182, 7438, 7692, 7943,
      8192, 8438, 8682, 8923, 9162, 9397, 9630, 9860, 10087, 10311,
      10531, 10749, 10963, 11174, 11381, 11585, 11786, 11982, 12176, 12365,
      12551, 12733, 12911, 13085, 13255, 13421, 13583, 13741, 13894, 14044,
      14189, 14330, 14466, 14598, 14726, 14849, 14968, 15082, 15191, 15296,
      15396, 15491, 15582, 15668, 15749, 15826, 15897, 15964, 16026, 16083,
      16135, 16182, 16225, 16262, 16294, 16322, 16344, 16362, 16374, 16382,
      16384>>

\* The sine of an angle of the first quadrant, between the entries of the table.
SinInterp(d, fr) ==
    IF d = 90
    THEN SinTable[91]
    ELSE SinTable[d + 1] + TruncDiv((SinTable[d + 2] - SinTable[d + 1]) * fr, DegUnit)

SinQuadrant(x) == SinInterp(x \div DegUnit, x % DegUnit)

SinReduced(r) ==
    IF r <= 90 * DegUnit THEN SinQuadrant(r)
    ELSE IF r <= 180 * DegUnit THEN SinQuadrant(180 * DegUnit - r)
    ELSE IF r <= 270 * DegUnit THEN -SinQuadrant(r - 180 * DegUnit)
    ELSE -SinQuadrant(360 * DegUnit - r)

\* macros.rs is not among the files: the trigonometric macros take degrees.
sin_deg(x) == SinReduced(x % (360 * DegUnit))
cos_deg(x) == sin_deg(x + 90 * DegUnit)

\* 180f32 / consts::PI, in units of 1/DegUnit degree.
deg_from_rad == 58671

\* let mut ecc: f32 = m + (e * sin_deg!(m) * (1f32 + (e * cos_deg!(m))));
seed_of(m, e_sin, one_plus_e_cos) ==
    f32(m + RoundDiv(RoundDiv(e_sin * one_plus_e_cos, TrigScale) * DegUnit, TrigScale))

initial_ecc(e, m) ==
    seed_of(m, RoundDiv(e * sin_deg(m), EccScale),
            TrigScale + RoundDiv(e * cos_deg(m), EccScale))

\* ecc - (ecc - (deg_from_rad * e * sin_deg!(ecc)) - m) / (1f32 - e * cos_deg!(ecc))
newton_of(ecc, numerator, denominator) ==
    f32(ecc - RoundDiv(numerator * TrigScale, denominator))

newton_iterate(e, m, ecc) ==
    newton_of(ecc,
              f32(f32(ecc - RoundDiv(RoundDiv(deg_from_rad * e, EccScale) * sin_deg(ecc),
                                     TrigScale)) - m),
              TrigScale - RoundDiv(e * cos_deg(ecc), EccScale))

\* let error = (f - ecc).abs();
error_of(f, ecc) == Abs(f32(f - ecc))

\* if error < 1.0e-2 { break; }
converged(error) == error * 100 < DegUnit

\* make_moon: e0: 0.054900 and m0: 115.3654, mc: 13.0649929509 (a whole and
\* a ten-thousandth part of a unit per day).
moon_e0 == 549
moon_m0 == 118134
moon_mc == 13378
moon_mc_frac == 5528

\* PlanetPS::mean_anomaly: self.m0 + (day * self.mc)
mean_anomaly(day) ==
    f32(moon_m0 + f32(day * moon_mc + RoundDiv(day * moon_mc_frac, 10000)))

\* The inputs of the solver: a grid of eccentricities and of mean anomalies
\* of one turn, and the Moon's elements on days counted from 2000-01-01.
KeplerEccs == {0, moon_e0, 2500, 5000}
KeplerAnomalies == {k * 30 * DegUnit : k \in 0..11}
KeplerDays == {0, 1, 10000, 10040, 10041, 10119}
KeplerInputs ==
    (KeplerEccs \X KeplerAnomalies)
        \cup {<<moon_e0, mean_anomaly(day)>> : day \in KeplerDays}

\* eccentric_anomaly is entered: ecc is seeded.
CallKepler ==
    /\ pc = "start"
    /\ \E inpt \in KeplerInputs :
          kep' = [e |-> inpt[1], m |-> inpt[2],
                  ecc |-> initial_ecc(inpt[1], inpt[2]), iters |-> 0]
    /\ pc' = "kepler"
    /\ UNCHANGED <<sim_bodies, env, sim_params, output, body_idx, tick,
                   refresh_ticks, init_bodies, zero_acc, cc, cancel>>

\* One iteration of the loop once f is computed; the loop has no other exit than the break.
Iterated(f) ==
    /\ kep' = [kep EXCEPT !.ecc = f, !.iters = @ + 1]
    /\ pc' = IF converged(error_of(f, kep.ecc)) THEN "kepler_done" ELSE "kepler"

KeplerStep ==
    /\ pc = "kepler"
    /\ kep.iters < MaxKeplerIter
    /\ Iterated(newton_iterate(kep.e, kep.m, kep.ecc))
    /\ UNCHANGED <<sim_bodies, env, sim_params, output, body_idx, tick,
                   refresh_ticks, init_bodies, zero_acc, cc, cancel>>

KeplerNext == CallKepler \/ KeplerStep

KeplerSpec == Init /\ [][KeplerNext]_vars

---------------------------------------------------------------------------
(* bodies.rs: CartesianCoords::to_meters and to_au, applied in any order   *)
(* to a CartesianCoords made in AU, as every constructor of bodies.rs      *)
(* makes them (is_meters: false).                                          *)

\* The conversions are called at most MaxCalls times on one CartesianCoords.
MaxCalls == 4

\* The xh, yh, zh a CartesianCoords is made with, in AU.
CoordValues == {F(-150), F(0), F(7), F(100)}

\* CartesianCoords{xh, yh, zh, is_meters: false, heliocentric}
NewCoords ==
    /\ pc = "start"
    /\ \E x \in CoordValues, y \in CoordValues, z \in CoordValues, h \in BOOLEAN :
          cc' = [coords |-> CartesianCoords(x, y, z, FALSE, h),
                 au |-> <<x, y, z>>, calls |-> 0, changes |-> 0]
    /\ pc' = "coords"
    /\ UNCHANGED <<sim_bodies, env, sim_params, output, body_idx, tick,
                   refresh_ticks, init_bodies, zero_acc, kep, cancel>>

\* One call of a conversion that returned the coords c.
Converted(c) ==
    cc' = [cc EXCEPT !.coords = c,
                     !.calls = @ + 1,
                     !.changes = IF coords_vec(c) # coords_vec(cc.coords) \/ c.is_meters # cc.coords.is_meters
                                 THEN @ + 1 ELSE @]

ToMeters ==
    /\ pc = "coords"
    /\ cc.calls < MaxCalls
    /\ Converted(to_meters(cc.coords))
    /\ UNCHANGED <<pc, sim_bodies, env, sim_params, output, body_idx, tick,
                   refresh_ticks, init_bodies, zero_acc, kep, cancel>>

ToAu ==
    /\ pc = "coords"
    /\ cc.calls < MaxCalls
    /\ Converted(to_au(cc.coords))
    /\ UNCHANGED <<pc, sim_bodies, env, sim_params, output, body_idx, tick,
                   refresh_ticks, init_bodies, zero_acc, kep, cancel>>

CoordsNext == NewCoords \/ ToMeters \/ ToAu

CoordsSpec == Init /\ [][CoordsNext]_vars

---------------------------------------------------------------------------
(* The physical constants as the source writes them.  The model computes   *)
(* with miniature values; here each constant is kept as the decimal        *)
(* m * 10^e of its literal, m not a multiple of ten.                       *)

Dec(m, e) == [m |-> m, e |-> e]

\* sim_cpu.rs: const G: f64 = 6.674e-11
G_literal == Dec(6674, -14)

\* bodies.rs: const METERS_PER_ASTRONOMICAL_UNIT: f32 = 1.4959787e+11, which
\* only EARTH_RADII_PER_ASTRONOMICAL_UNIT uses.
METERS_PER_ASTRONOMICAL_UNIT == Dec(14959787, 4)

\* bodies.rs: const METERS_PER_EARTH_EQUATORIAL_RADIUS: f32 = 6378140.0
METERS_PER_EARTH_EQUATORIAL_RADIUS == Dec(637814, 1)

\* to_meters: self.xh *= 149600000000f32, and to_au: self.xh /= 149600000000f32
to_meters_factor == Dec(1496, 8)
to_au_factor == Dec(1496, 8)

\* The SolarAttr{radius, mass} of make_sun, make_earth and make_moon.
SolarAttr(solartype) ==
    CASE solartype = "Sun" -> [radius |-> Dec(6957, 5), mass |-> Dec(19891, 26)]
      [] solartype = "Earth" -> [radius |-> Dec(63781, 2), mass |-> Dec(59722, 20)]
      [] solartype = "Moon" -> [radius |-> Dec(17381, -1), mass |-> Dec(7346, 19)]

---------------------------------------------------------------------------
(* Helpers of the properties.                                              *)

RowRank(r) ==
    CASE r.row = "solar" -> 0
      [] r.row = "perturbation" -> 1
      [] r.row = "object" -> 2

\* The rows written in tick t, in the order written.
RowsOf(t) == SelectSeq(output, LAMBDA r : r.tick = t)

\* The kinds of a sequence of rows.
Kinds(rows) == [i \in DOMAIN rows |-> rows[i].row]

\* n copies of x.
Repeat(x, n) == [i \in 1..n |-> x]

\* Tick t has written all its rows.
TickDone(t) == t < tick \/ (t = tick /\ pc = "advance")

\* The body at position b has been through apply_perturbations in the current tick.
Processed(b) == pc \in {"write", "advance"} \/ (pc = "perturb" /\ b < body_idx)

\* The number of times apply_perturbations ran on the body at position b.
StepsOf(b) == tick + (IF Processed(b) THEN 1 ELSE 0)

SolarTypes(objs) == [i \in DOMAIN objs |-> objs[i].solartype]

---------------------------------------------------------------------------
(* C1: within every tick the solar-object rows (written only in a tick     *)
(* that refreshed) come before every perturbation row, which come before   *)
(* every object-state row, and no row of a later tick is written before    *)
(* the last row of an earlier tick.                                        *)
C1_OutputOrdered ==
    /\ \A i \in 1..(Len(output) - 1) :
          \/ output[i].tick < output[i + 1].tick
          \/ /\ output[i].tick = output[i + 1].tick
             /\ RowRank(output[i]) <= RowRank(output[i + 1])
    /\ \A i \in DOMAIN output :
          output[i].row = "solar" => output[i].tick \in refresh_ticks

\* Two bodies, a tick after the first that refreshed, and all three kinds of rows in it.
C1_Witness ==
    /\ Len(sim_bodies) = 2
    /\ tick >= 1
    /\ pc = "advance"
    /\ \E i, j, k \in DOMAIN output :
          /\ output[i].tick = tick /\ output[i].row = "solar"
          /\ output[j].tick = tick /\ output[j].row = "perturbation"
          /\ output[k].tick = tick /\ output[k].row = "object"

(* C2 (as claimed): at the start of every tick the ephemeris rows are      *)
(* written and the environment refreshed if and only if                    *)
(* sim_time_s - last_solar_update_s >= solar_refresh_seconds, equality     *)
(* included, and the rows written are those of the environment before the  *)
(* refresh.                                                                *)
C2_RefreshIffElapsed ==
    [][pc = "solar" =>
          /\ (tick \in refresh_ticks') <=>
                 (env.sim_time_s - env.last_day_update_s >= sim_params.sim_solar_step)
          /\ (tick \in refresh_ticks') =>
                 /\ output' = write_out_all_solar_objects(env, output, tick)
                 /\ env'.last_day_update_s = env.sim_time_s]_vars

(* C3 (as claimed): with one small body, tick 0 writes three solar rows,   *)
(* three perturbation rows and one state row; every later tick writes      *)
(* three perturbation rows then one state row, after three solar rows      *)
(* exactly when the tick refreshed; in general one perturbation row per    *)
(* (small body, ephemeris body) pair and one state row per small body.     *)
(* Stated for the runs with one small body and a positive refresh interval, *)
(* where no interval has elapsed at tick 0 whether the refresh test is read *)
(* as > or as >=.                                                          *)
C3_RowsPerTick_Claimed ==
    \A t \in 0..tick :
        (TickDone(t) /\ Len(sim_bodies) = 1 /\ sim_params.sim_solar_step > 0) =>
            Kinds(RowsOf(t)) =
                Repeat("solar", IF t = 0 \/ t \in refresh_ticks THEN 3 ELSE 0)
                \o Repeat("perturbation", 3 * Len(sim_bodies))
                \o Repeat("object", Len(sim_bodies))

(* C3 (amended): tick 0 never refreshes and so writes no solar rows; every *)
(* tick writes one perturbation row per (small body, ephemeris body) pair, *)
(* body by body in list order, then one state row per small body, after    *)
(* three solar rows exactly when the tick refreshed.                       *)
C3_RowsPerTick ==
    /\ 0 \notin refresh_ticks
    /\ \A t \in 0..tick :
          TickDone(t) =>
              /\ Kinds(RowsOf(t)) =
                     Repeat("solar", IF t \in refresh_ticks THEN 3 ELSE 0)
                     \o Repeat("perturbation", 3 * Len(sim_bodies))
                     \o Repeat("object", Len(sim_bodies))
              /\ \A i \in DOMAIN RowsOf(t) :
                     LET r == RowsOf(t)[i]
                         n == IF t \in refresh_ticks THEN 3 ELSE 0
                     IN  /\ r.row = "perturbation" => r.idx = ((i - n - 1) \div 3) + 1
                         /\ r.row = "object" => r.idx = i - n - 3 * Len(sim_bodies)

\* One body, three ticks done, one of them with a solar block and one without.
C3_Witness ==
    /\ Len(sim_bodies) = 1
    /\ tick = 2
    /\ pc = "advance"
    /\ refresh_ticks # {}
    /\ refresh_ticks # {1, 2}

(* C4 (as claimed): when a small body is less than one meter from an       *)
(* ephemeris body, the perturbation step aborts with a fatal error: the    *)
(* body's velocity and position stay as they were, nothing is written, and *)
(* the loop does not go on.                                                *)
Coincident(sim_obj, e) ==
    \E k \in DOMAIN get_solar_objects(e) :
        LET n == l2_norm(distance_to(e, sim_obj, k))
        IN  IsFin(n) /\ n[1] < FRAC

C4_CoincidentAborts ==
    [][(pc = "perturb" /\ Coincident(sim_bodies[body_idx], env)) =>
          /\ sim_bodies' = sim_bodies
          /\ output' = output
          /\ pc' = "fatal"]_vars

(* C5 (as claimed): eccentric_anomaly terminates for every eccentricity in *)
(* [0, 1) and every mean anomaly: it performs at most 64 Newton            *)
(* iterations, returning the last iterate if that cap is reached, and      *)
(* otherwise returns as soon as two successive iterates differ by less     *)
(* than 1/100 degree.                                                      *)
C5_AtMost64Iterations == pc \in {"kepler", "kepler_done"} => kep.iters <= 64

(* C6 (as claimed): after loading, the body at position k of the list      *)
(* (counted from 0) has id k, so no two bodies share an id.                *)
C6_IdsConsecutive ==
    pc # "start" =>
        /\ \A k \in DOMAIN sim_bodies : get_id(sim_bodies[k]) = k - 1
        /\ \A j, k \in DOMAIN sim_bodies :
               get_id(sim_bodies[j]) = get_id(sim_bodies[k]) => j = k

(* C7: the ephemeris list is Sun, Earth, Moon in this order, the Sun at    *)
(* the first index, at construction and after every refresh.               *)
C7_CanonicalOrder ==
    SolarTypes(get_solar_objects(env)) = <<"Sun", "Earth", "Moon">>

\* Two refreshes have happened and the ephemeris has moved to another day.
C7_Witness ==
    /\ Cardinality(refresh_ticks) >= 2
    /\ env.day # env.start_day
    /\ SolarTypes(get_solar_objects(env)) = <<"Sun", "Earth", "Moon">>

(* C8 (as claimed): the body at the first index of the environment's list, *)
(* the one the perturbation engine reads as the centric body, is the Earth *)
(* in every state of a run.                                                *)
C8_CentricIsEarth ==
    pc # "start" => get_solar_objects(env)[1].solartype = "Earth"

C10_SunAtOrigin ==
    \A i \in DOMAIN get_solar_objects(env) :
        get_solar_objects(env)[i].solartype = "Sun" =>
            /\ coords_vec(get_solar_objects(env)[i].coords) = ZeroVec
            /\ get_solar_objects(env)[i].coords.heliocentric

\* A refresh has moved the Earth to another day's position; the list holds a Sun.
C10_Witness ==
    /\ refresh_ticks # {}
    /\ env.day # env.start_day
    /\ \E i \in DOMAIN get_solar_objects(env) : get_solar_objects(env)[i].solartype = "Sun"
    /\ get_solar_objects(env) # get_solar_objects(Environment_new(env.start_day))

(* C11 (as claimed): calling to_meters twice gives the coordinates and the *)
(* flag of calling it once, likewise to_au; to_meters changes the values   *)
(* only when is_meters was false, to_au only when it was true; and after   *)
(* any sequence of calls is_meters is true exactly when the values are the *)
(* AU values scaled by the conversion factor.                              *)
Idempotent(c) ==
    /\ to_meters(to_meters(c)) = to_meters(c)
    /\ to_au(to_au(c)) = to_au(c)

ChangesOnlyWhenDue(c) ==
    /\ coords_vec(to_meters(c)) # coords_vec(c) => ~c.is_meters
    /\ coords_vec(to_au(c)) # coords_vec(c) => c.is_meters

C12_ConstantsFrozen ==
    /\ G_literal = Dec(6674, -14)
    /\ METERS_PER_ASTRONOMICAL_UNIT = Dec(14959787, 4)
    /\ METERS_PER_EARTH_EQUATORIAL_RADIUS = Dec(637814, 1)
    /\ \A i \in DOMAIN env.solar_objs :
          LET obj == env.solar_objs[i] IN
          /\ obj.coords.is_meters =>
                /\ to_meters_factor = Dec(14959787, 4)
                /\ to_au_factor = Dec(14959787, 4)
          /\ obj.solartype = "Sun" =>
                SolarAttr("Sun") = [radius |-> Dec(6957, 5), mass |-> Dec(19891, 26)]
          /\ obj.solartype = "Earth" =>
                SolarAttr("Earth") = [radius |-> Dec(63781, 2), mass |-> Dec(59722, 20)]
          /\ obj.solartype = "Moon" =>
                SolarAttr("Moon") = [radius |-> Dec(17381, 2), mass |-> Dec(7346, 19)]

(* C13 (as claimed): the propagator loop terminates on cancellation,       *)
(* observed between ticks, or when the bounded end time is reached: at the *)
(* end of a tick, with the tick's rows written, a cancelled run or a run   *)
(* whose time reaches end_seconds starts no further tick.                  *)
C13_LoopTerminates ==
    [][(/\ pc = "advance"
        /\ \/ cancel
           \/ env.sim_time_s + sim_params.sim_time_step >= end_seconds)
       => pc' # "solar"]_vars

(* C14 (as claimed): the acceleration recorded for the Sun, the one that   *)
(* is summed and integrated, is the Sun's direct acceleration on the small *)
(* body minus the Sun's acceleration on the centric body, the Earth.       *)
C14_SunDifferentialApplied ==
    [][pc = "perturb" =>
        \A k \in (Len(output) + 1)..Len(output') :
            \A i \in DOMAIN get_solar_objects(env) :
                (/\ get_solar_objects(env)[i].solartype = "Sun"
                 /\ output'[k].rec.petrub_type = <<"solar_obj", "Sun">>) =>
                    output'[k].rec.acceleration =
                        vsub(newton_gravitational_field(
                                 distance_to(env, sim_bodies[body_idx], i), i, env),
                             newton_gravitational_field(
                                 vsub(coords_vec(get_solar_objects(env)[i].coords),
                                      coords_vec(earth_of(get_solar_objects(env)).coords)),
                                 i, env))]_vars

\* The accelerations of the perturbation rows that the step to the next state
\* appends to out, in the order written.
NewAccelerations(out, out_after) ==
    [k \in 1..(Len(out_after) - Len(out)) |-> out_after[Len(out) + k].rec.acceleration]

(* C15: a perturbation step on a small body is a symplectic Euler step:    *)
(* one acceleration is recorded per ephemeris body, the new velocity is    *)
(* the old velocity plus dt times the sum of the recorded accelerations,   *)
(* and the new position is the old position plus dt times the new          *)
(* velocity.                                                               *)
C15_SymplecticEuler ==
    [][pc = "perturb" =>
        LET dt == ToF(sim_params.sim_time_step)
            accelerations == NewAccelerations(output, output')
            a == SumFrom(accelerations, Len(accelerations))
        IN  /\ Len(accelerations) = Len(get_solar_objects(env))
            /\ sim_bodies'[body_idx].velocity =
                   vadd(sim_bodies[body_idx].velocity, vscale(a, dt))
            /\ sim_bodies'[body_idx].coords =
                   vadd(sim_bodies[body_idx].coords,
                        vscale(sim_bodies'[body_idx].velocity, dt))]_vars

\* A body that moved at the start and was accelerated in a step of two seconds.
C15_Witness ==
    /\ pc \in {"perturb", "write"}
    /\ body_idx >= 2
    /\ sim_params.sim_time_step = 2
    /\ ~zero_acc[1]
    /\ init_bodies[1].velocity # ZeroVec
    /\ \A k \in 1..3 : IsFin(sim_bodies[1].velocity[k]) /\ IsFin(sim_bodies[1].coords[k])
    /\ sim_bodies[1].velocity # init_bodies[1].velocity

\* The ticks whose head (the refresh test) has been passed.
HeadPassed == {t \in 0..tick : t < tick \/ pc # "solar"}

\* The run is inside simulate's loop.
InLoop == pc \in {"solar", "perturb", "write", "advance"}

RowsStamped ==
    \A k \in DOMAIN output :
        output[k].rec.sim_time = output[k].tick * sim_params.sim_time_step

\* The state rows of a body that was never accelerated show the position after
\* the integration of their tick: tick + 1 steps from the initial position.
StateRowsAfterIntegration ==
    \A k \in DOMAIN output :
        (output[k].row = "object" /\ zero_acc[output[k].idx]) =>
            output[k].rec.coords =
                vadd(init_bodies[output[k].idx].coords,
                     vscale(init_bodies[output[k].idx].velocity,
                            ToF((output[k].tick + 1) * sim_params.sim_time_step)))

(* C17: the simulated time is 0 at the start, is tick * step at every      *)
(* point of a tick, and changes only at the end of a tick, by exactly the  *)
(* step; every solar, perturbation and state row of a tick carries         *)
(* sim_time = tick * step; the state rows are written once every body has  *)
(* been integrated in the tick and carry the bodies' position and velocity *)
(* of after that integration.                                              *)
C17_SimTimeStamps ==
    [][/\ pc = "start" => env.sim_time_s = 0
       /\ InLoop' =>
             /\ env'.sim_time_s = tick' * sim_params'.sim_time_step
             /\ RowsStamped'
             /\ StateRowsAfterIntegration'
       /\ env'.sim_time_s # env.sim_time_s => pc = "advance"
       /\ (pc = "advance" /\ InLoop') =>
             /\ tick' = tick + 1
             /\ env'.sim_time_s = env.sim_time_s + sim_params.sim_time_step
       /\ (pc = "write" /\ InLoop') =>
             /\ body_idx = Len(sim_bodies) + 1
             /\ Len(output') = Len(output) + Len(sim_bodies)
             /\ \A i \in DOMAIN sim_bodies :
                   /\ output'[Len(output) + i].row = "object"
                   /\ output'[Len(output) + i].rec.coords = sim_bodies[i].coords
                   /\ output'[Len(output) + i].rec.velocity = sim_bodies[i].velocity]_vars

\* The third tick of a run with a step of two seconds has written rows of each
\* kind, for a body that has moved.
C17_Witness ==
    /\ pc = "advance"
    /\ tick = 2
    /\ sim_params.sim_time_step = 2
    /\ \A kind \in {"solar", "perturbation", "object"} :
          \E k \in DOMAIN output : output[k].tick = 2 /\ output[k].row = kind
    /\ \E b \in DOMAIN sim_bodies :
          /\ \A j \in 1..3 : IsFin(sim_bodies[b].coords[j])
          /\ sim_bodies[b].coords # init_bodies[b].coords

(* C18: a perturbation step on one body changes nothing but that body's    *)
(* velocity and position: the environment (ephemeris coordinates,          *)
(* sim_time_s, time of the last refresh), the body's id and type and every *)
(* other body are as before; the body's new state is the same whether or   *)
(* not the per-body perturbation records are asked for; and inside the     *)
(* loop the ephemeris changes only in the refresh at the head of a tick.   *)
C18_BodyStepIsolated ==
    [][/\ pc = "perturb" =>
             /\ env' = env
             /\ DOMAIN sim_bodies' = DOMAIN sim_bodies
             /\ \A i \in DOMAIN sim_bodies :
                   i # body_idx => sim_bodies'[i] = sim_bodies[i]
             /\ sim_bodies'[body_idx] =
                    [sim_bodies[body_idx] EXCEPT !.velocity = sim_bodies'[body_idx].velocity,
                                                 !.coords = sim_bodies'[body_idx].coords]
             /\ sim_bodies'[body_idx] =
                    apply_perturbations(sim_bodies[body_idx], env,
                                        ToF(sim_params.sim_time_step), FALSE).obj
       /\ (InLoop /\ get_solar_objects(env') # get_solar_objects(env)) =>
             pc = "solar" /\ refresh_due(env, sim_params)]_vars

\* The first of two bodies has been advanced, the second not yet.
C18_Witness ==
    /\ pc = "perturb"
    /\ tick = 0
    /\ body_idx = 2
    /\ Len(sim_bodies) = 2
    /\ sim_bodies[1].coords # init_bodies[1].coords
    /\ sim_bodies[1].velocity # init_bodies[1].velocity
    /\ sim_bodies[2] = init_bodies[2]

====
